---- MODULE Spec2Model ----
(***************************************************************************)
(* A model of CDoS-6Mbps-adhoc-UDP-building.cc: the batch driver main()    *)
(* and experiment(), which configures one ns-3 run (on/off traffic         *)
(* parameters, start/stop times, reachability probes, output path) and     *)
(* hands it to the simulation engine.                                      *)
(*                                                                         *)
(* Numbers.  The doubles of the source are modelled as exact rationals     *)
(* <<n, d>> (d > 0, lowest terms), with <<1,0>>, <<-1,0>> and <<0,0>> for   *)
(* +inf, -inf and NaN.  Every double that the program uses afterwards is   *)
(* first written to a text (operator<< of a stream: six significant        *)
(* digits; sprintf %.2f: two decimals), so the model keeps the exact       *)
(* value up to that conversion and then the decimal the text denotes.      *)
(* Times are integers, in milliseconds.  The building, the positions and   *)
(* the radio and MAC settings of steps 2 to 4 are handed to ns-3 unchanged *)
(* and are not part of the state.                                          *)
(***************************************************************************)
EXTENDS Integers, Sequences, FiniteSets, TLC

(***************************************************************************)
(* Rational arithmetic                                                     *)
(***************************************************************************)
Abs(x) == IF x < 0 THEN -x ELSE x

RECURSIVE Gcd(_, _)
Gcd(a, b) == IF b = 0 THEN a ELSE Gcd(b, a % b)

Sign(x) == IF x < 0 THEN -1 ELSE IF x > 0 THEN 1 ELSE 0

Inf == <<1, 0>>
NaN == <<0, 0>>
Zero == <<0, 1>>

IsFinite(r) == r[2] # 0

RNorm(n, d) ==
  IF d = 0 THEN <<Sign(n), 0>>
  ELSE LET g == Gcd(Abs(n), Abs(d))
           s == IF d < 0 THEN -1 ELSE 1
       IN  <<s * (n \div g), s * (d \div g)>>

\* a * b on doubles: inf * 0 is NaN, inf * x is an infinity
RMul(a, b) ==
  IF a = NaN \/ b = NaN THEN NaN
  ELSE IF ~IsFinite(a) \/ ~IsFinite(b)
       THEN <<Sign(a[1]) * Sign(b[1]), 0>>
       ELSE LET g1 == Gcd(Abs(a[1]), b[2])
                g2 == Gcd(Abs(b[1]), a[2])
            IN  RNorm((a[1] \div g1) * (b[1] \div g2), (a[2] \div g2) * (b[2] \div g1))

\* 1 / a on doubles: 1/0 is +inf, 1/inf is 0
RInv(a) ==
  IF a = NaN THEN NaN
  ELSE IF ~IsFinite(a) THEN Zero
  ELSE IF a[1] = 0 THEN Inf
  ELSE RNorm(a[2], a[1])

\* a - b on doubles: inf - inf is NaN
RSub(a, b) ==
  IF a = NaN \/ b = NaN THEN NaN
  ELSE IF ~IsFinite(a) THEN (IF ~IsFinite(b) /\ a = b THEN NaN ELSE a)
  ELSE IF ~IsFinite(b) THEN <<-b[1], 0>>
  ELSE LET g == Gcd(a[2], b[2])
       IN  RNorm(a[1] * (b[2] \div g) - b[1] * (a[2] \div g), (a[2] \div g) * b[2])

(***************************************************************************)
(* Text conversions                                                        *)
(***************************************************************************)
Digit == <<"0", "1", "2", "3", "4", "5", "6", "7", "8", "9">>

\* printf %d / operator<< of a non-negative integer
RECURSIVE Dec(_)
Dec(n) == IF n < 10 THEN Digit[n + 1] ELSE Dec(n \div 10) \o Digit[(n % 10) + 1]

\* printf %.2f of a finite non-negative double
Fixed2(r) ==
  LET q == (r[1] * 100) \div r[2]
      m == (r[1] * 100) % r[2]
      c == IF 2 * m >= r[2] THEN q + 1 ELSE q
  IN  Dec(c \div 100) \o "." \o Digit[((c \div 10) % 10) + 1] \o Digit[(c % 10) + 1]

\* The first six significant digits of n/d (n > 0): n/d = (mant + rem/d) / 10^scale
RECURSIVE Sig6(_, _, _, _)
Sig6(m, r, d, s) ==
  IF m >= 100000 THEN [mant |-> m, rem |-> r, scale |-> s]
  ELSE Sig6(m * 10 + ((r * 10) \div d), (r * 10) % d, d, s + 1)

\* %g drops the trailing zeros of the fraction
RECURSIVE Strip(_, _)
Strip(m, s) == IF s > 0 /\ m % 10 = 0 THEN Strip(m \div 10, s - 1) ELSE [mant |-> m, scale |-> s]

\* operator<< (std::ostream, double) with the default precision of 6, as the
\* decimal number the text denotes: kind "num" is neg * mant / 10^scale
StreamDouble(r) ==
  IF r = NaN THEN [kind |-> "nan", neg |-> FALSE, mant |-> 0, scale |-> 0]
  ELSE IF ~IsFinite(r) THEN [kind |-> "inf", neg |-> r[1] < 0, mant |-> 0, scale |-> 0]
  ELSE IF r[1] = 0 THEN [kind |-> "num", neg |-> FALSE, mant |-> 0, scale |-> 0]
  ELSE LET n == Abs(r[1])
           t == Sig6(n \div r[2], n % r[2], r[2], 0)
           u == IF 2 * t.rem >= r[2] THEN t.mant + 1 ELSE t.mant
           z == Strip(u, t.scale)
       IN  [kind |-> "num", neg |-> r[1] < 0, mant |-> z.mant, scale |-> z.scale]

IntDecimal(n) == [kind |-> "num", neg |-> FALSE, mant |-> n, scale |-> 0]

(***************************************************************************)
(* Program constants                                                       *)
(***************************************************************************)
cbrPort == 12345
echoPort == 9
PathnameSize == 50
FirstStartTime == 53000
FirstStopTime == 153000
Uint16 == 65536

TopDir == "CDoS-6Mbps-adhoc-UDP-building"

(***************************************************************************)
(* The calls of experiment() that are explored.  main() makes the two      *)
(* calls of MainCalls; the other drivers call experiment() once or twice   *)
(* with arguments drawn from small sets.                                   *)
(***************************************************************************)
MaxNodes == 6

Loads == {<<0, 1>>, <<7, 50>>, <<1, 7>>, <<1, 2>>, <<1, 1>>, <<3, 2>>}
PktLengths == {0, 200, 1500, 65535}
Durations == {0, 100, 153, 154, 203}
LargeNodeCounts == {254, 256, 9982, 9984}

Args(cts, n, dur, first, rest, len) ==
  [enableCtsRts |-> cts, NumofNode |-> n, DurationofSimulation |-> dur,
   FirstNodeLoad |-> first, RestNodeLoad |-> rest, PktLength |-> len]

MainCalls == << Args(FALSE, 6, 203, <<1, 1>>, <<7, 50>>, 200),
                Args(FALSE, 6, 203, <<1, 1>>, <<7, 50>>, 1500) >>

LoadCalls == { Args(FALSE, n, 203, f, r, l) :
                 n \in 0..MaxNodes, f \in Loads, r \in Loads, l \in PktLengths }

TimingCalls == { Args(cts, n, dur, <<1, 1>>, <<7, 50>>, l) :
                   cts \in BOOLEAN, n \in 0..MaxNodes, dur \in Durations, l \in {200, 1500} }

LargeCalls == { Args(FALSE, n, 203, <<1, 1>>, <<7, 50>>, 200) : n \in LargeNodeCounts }

PairCalls == { Args(FALSE, 2, 203, f, r, l) :
                 f \in {<<1, 1>>, <<7, 50>>, <<1, 7>>}, r \in {<<7, 50>>, <<1, 7>>}, l \in {200, 1500} }

Drivers == {MainCalls}
             \cup { <<c>> : c \in LoadCalls \cup TimingCalls \cup LargeCalls }
             \cup { <<c1, c2>> : c1 \in PairCalls, c2 \in PairCalls }

VARIABLES
  calls,     \* the calls of experiment() the driver makes, in order
  writable,  \* the environment: mkdir can create directories
  pc,        \* the position in main() / experiment()
  callIdx,   \* the index in calls of the current (or next) call
  log,       \* SetSeed, experiment, Run and Destroy, in the order they happened
  seed,      \* the seed of RngSeedManager, 0 while not set
  defaults,  \* Config::SetDefault: RTS/CTS threshold, MTU, ARP timeouts (ms); 0 = not set
  nodes,     \* the address of each station, by station index + 1
  cbrApps,   \* the on/off application and sink of each flow, by flow index + 1
  pingApps,  \* the echo client of each flow, by flow index + 1
  fs,        \* the directories that exist
  pathname,  \* char pathname[50], as the text sprintf wrote
  smashed,   \* sprintf overwrote the stack protector's guard
  athstats,  \* the file name prefix given to EnableAthstats
  sim,       \* the simulator: stop time, current time (ms), state
  outputs    \* for each run that went through Simulator::Run: arguments, path, captured

vars == <<calls, writable, pc, callIdx, log, seed, defaults, nodes, cbrApps, pingApps,
          fs, pathname, smashed, athstats, sim, outputs>>

\* the arguments of the call of experiment() in progress
arg == calls[callIdx]

(***************************************************************************)
(* experiment(), step 5: addresses                                         *)
(***************************************************************************)
\* Ipv4AddressHelper: base 10.0.0.0, mask 255.0.0.0; device j gets the (j+1)-th address
AssignedAddress(j) ==
  LET h == j + 1
  IN  "10." \o Dec(h \div 65536) \o "." \o Dec((h \div 256) % 256) \o "." \o Dec(h % 256)
\* a slip: the sender's own address instead of its receiver's
RemoteAddressOfSender(i) == "10.0.0." \o Dec(i * 2 + 1)

\* ipv4address << "10.0.0." << (i*2+2)
RemoteAddress(i) == "10.0.0." \o Dec(i * 2 + 2)

(***************************************************************************)
(* experiment(), step 6: the on/off applications                           *)
(***************************************************************************)
\* (double)1/6000000 * PktLength*8
pkt_time(len) == RMul(RMul(RNorm(1, 6000000), <<len, 1>>), <<8, 1>>)
\* a slip: the mean of the whole on/off period, the on time not taken off
OffMeanWholePeriod(load, pkt) == RInv(RMul(load, RInv(pkt)))

\* 1/(Load*(1/pkt_time)) - pkt_time
OffMean(load, pkt) == RSub(RInv(RMul(load, RInv(pkt))), pkt)

Constant(v) == [type |-> "ns3::ConstantRandomVariable", value |-> v]
Exponential(v) == [type |-> "ns3::ExponentialRandomVariable", value |-> v]

\* i == (uint16_t)(NumofNode/2-1)
IsFirst(i, a) == i = ((a.NumofNode \div 2) - 1) % Uint16
\* a slip: the always-on / always-off constants for any flow, not the first node's only
BranchAnyFlow(i, a) ==
  LET load == IF IsFirst(i, a) THEN a.FirstNodeLoad ELSE a.RestNodeLoad
  IN  IF load = <<1, 1>> THEN "first=1"
      ELSE IF load = <<0, 1>> THEN "first=0"
      ELSE IF IsFirst(i, a) THEN "first" ELSE "rest"

\* which branch of lines 131-158 the iteration takes
Branch(i, a) ==
  IF IsFirst(i, a)
  THEN IF a.FirstNodeLoad = <<1, 1>> THEN "first=1"
       ELSE IF a.FirstNodeLoad = <<0, 1>> THEN "first=0"
       ELSE "first"
  ELSE "rest"

OnTime(i, a) ==
  CASE Branch(i, a) = "first=1" -> Constant(IntDecimal(1))
    [] Branch(i, a) = "first=0" -> Constant(IntDecimal(0))
    [] OTHER -> Constant(StreamDouble(pkt_time(a.PktLength)))

OffTime(i, a) ==
  CASE Branch(i, a) = "first=1" -> Constant(IntDecimal(0))
    [] Branch(i, a) = "first=0" -> Constant(IntDecimal(1))
    [] Branch(i, a) = "first" ->
         Exponential(StreamDouble(OffMean(a.FirstNodeLoad, pkt_time(a.PktLength))))
    [] OTHER ->
         Exponential(StreamDouble(OffMean(a.RestNodeLoad, pkt_time(a.PktLength))))
\* a slip: the integer division of the echo clients' start time, here too
RestStartTimeTruncated(i) == 3100 + (i \div 100) * 1000

\* Seconds (3.100+i*0.01), in ms
RestStartTime(i) == 3100 + i * 10

StartTime(i, a) == IF IsFirst(i, a) THEN FirstStartTime ELSE RestStartTime(i)
\* a slip: the first node's application stopped with the run, not before it
StopTimeWithRun(i, a) == IF IsFirst(i, a) THEN a.DurationofSimulation * 1000 ELSE 0

\* only the first node's application gets a StopTime; 0 is the attribute's
\* default: the application is never stopped
StopTime(i, a) == IF IsFirst(i, a) THEN FirstStopTime ELSE 0

\* one iteration of the loop of lines 123-165: the sender's OnOff application
\* on node i*2 and the packet sink on node i*2+1
Flow(i, a) ==
  [Remote |-> RemoteAddress(i), Port |-> cbrPort + i, PacketSize |-> a.PktLength,
   branch |-> Branch(i, a),
   load |-> IF IsFirst(i, a) THEN a.FirstNodeLoad ELSE a.RestNodeLoad,
   OnTime |-> OnTime(i, a), OffTime |-> OffTime(i, a), DataRate |-> "6000000bps",
   StartTime |-> StartTime(i, a), StopTime |-> StopTime(i, a),
   node |-> i * 2, sinkPort |-> cbrPort + i, sinkNode |-> i * 2 + 1]

(***************************************************************************)
(* experiment(), the echo clients sending one packet each                  *)
(***************************************************************************)
\* Seconds (0.001+i/1000), in ms: i is a size_t, i/1000 an integer division
PingStartTime(i) == 1 + (i \div 1000) * 1000

Ping(i) ==
  [Remote |-> RemoteAddress(i), Port |-> echoPort, MaxPackets |-> 1,
   Interval |-> 100000000, PacketSize |-> 10,
   StartTime |-> PingStartTime(i), node |-> i * 2]

(***************************************************************************)
(* experiment(), step 7: the output path                                   *)
(***************************************************************************)
\* "./CDoS-6Mbps-adhoc-UDP-building/u_0=%1.2frho=%.2fT=%d"
PathFormat(a) ==
  "./" \o TopDir \o "/u_0=" \o Fixed2(a.FirstNodeLoad) \o "rho=" \o Fixed2(a.RestNodeLoad)
       \o "T=" \o Dec(a.PktLength)

\* what a build can do when sprintf writes past char pathname[50]: nothing visible,
\* the checked sprintf of a fortified build aborts, or the stack protector aborts
\* when experiment() returns
Overflows == {"unnoticed", "abort in sprintf", "abort on return"}

\* mkdir(2): succeeds when the parent exists and the working directory is writable
\* (an existing directory stays); the program ignores the result
Mkdir(dirs, parent, dir) ==
  IF writable /\ parent \in dirs THEN dirs \cup {dir} ELSE dirs

NoSim == [stop |-> -1, now |-> 0, state |-> "idle"]

Init ==
  /\ calls \in Drivers
  /\ writable \in BOOLEAN
  /\ pc = "main"
  /\ callIdx = 1
  /\ log = <<>>
  /\ seed = 0
  /\ defaults = [RtsCtsThreshold |-> 0, Mtu |-> 0, DeadTimeout |-> 0, AliveTimeout |-> 0]
  /\ nodes = <<>>
  /\ cbrApps = <<>>
  /\ pingApps = <<>>
  /\ fs = {"."}
  /\ pathname = ""
  /\ smashed = FALSE
  /\ athstats = ""
  /\ sim = NoSim
  /\ outputs = <<>>

(***************************************************************************)
(* main()                                                                  *)
(***************************************************************************)
\* RngSeedManager::SetSeed(1)
SetSeed ==
  /\ pc = "main"
  /\ seed' = 1
  /\ log' = Append(log, <<"SetSeed", 1>>)
  /\ pc' = "call"
  /\ UNCHANGED <<calls, writable, callIdx, defaults, nodes, cbrApps, pingApps, fs,
                 pathname, smashed, athstats, sim, outputs>>

\* return 0
MainReturn ==
  /\ pc = "call"
  /\ callIdx > Len(calls)
  /\ pc' = "done"
  /\ UNCHANGED <<calls, writable, callIdx, log, seed, defaults, nodes, cbrApps, pingApps,
                 fs, pathname, smashed, athstats, sim, outputs>>

(***************************************************************************)
(* experiment()                                                            *)
(***************************************************************************)
\* the call, and steps 0 to 5: defaults, nodes, building, channel, devices, addresses
CallExperiment ==
  /\ pc = "call"
  /\ callIdx <= Len(calls)
  /\ defaults' = [RtsCtsThreshold |-> IF arg.enableCtsRts THEN 100 ELSE 10000000,
                  Mtu |-> 2296, DeadTimeout |-> 0, AliveTimeout |-> 120000000]
  /\ nodes' = [j \in 1..arg.NumofNode |-> AssignedAddress(j - 1)]
  /\ cbrApps' = <<>>
  /\ pingApps' = <<>>
  /\ pathname' = ""
  /\ smashed' = FALSE
  /\ athstats' = ""
  /\ sim' = NoSim
  /\ log' = Append(log, <<"experiment", arg.PktLength>>)
  /\ pc' = "apps"
  /\ UNCHANGED <<calls, writable, callIdx, seed, fs, outputs>>

\* step 6: the loop over i < NumofNode/2
InstallFlows ==
  /\ pc = "apps"
  /\ cbrApps' = [k \in 1..(arg.NumofNode \div 2) |-> Flow(k - 1, arg)]
  /\ pc' = "pings"
  /\ UNCHANGED <<calls, writable, callIdx, log, seed, defaults, nodes, pingApps, fs,
                 pathname, smashed, athstats, sim, outputs>>

\* the loop installing one UdpEchoClient per sender
InstallProbes ==
  /\ pc = "pings"
  /\ pingApps' = [k \in 1..(arg.NumofNode \div 2) |-> Ping(k - 1)]
  /\ pc' = "mkdir"
  /\ UNCHANGED <<calls, writable, callIdx, log, seed, defaults, nodes, cbrApps, fs,
                 pathname, smashed, athstats, sim, outputs>>

\* mkdir("CDoS-6Mbps-adhoc-UDP-building", ...)
MkdirTop ==
  /\ pc = "mkdir"
  /\ fs' = Mkdir(fs, ".", "./" \o TopDir)
  /\ pc' = "sprintf"
  /\ UNCHANGED <<calls, writable, callIdx, log, seed, defaults, nodes, cbrApps, pingApps,
                 pathname, smashed, athstats, sim, outputs>>

\* sprintf (pathname, ...): the text and its terminator go to char pathname[50]
FormatPath ==
  /\ pc = "sprintf"
  /\ IF Len(PathFormat(arg)) + 1 <= PathnameSize
     THEN /\ pathname' = PathFormat(arg)
          /\ pc' = "mkdir2"
          /\ UNCHANGED smashed
     ELSE \E o \in Overflows :
            /\ pathname' = PathFormat(arg)
            /\ smashed' = (o = "abort on return")
            /\ pc' = IF o = "abort in sprintf" THEN "aborted" ELSE "mkdir2"
  /\ UNCHANGED <<calls, writable, callIdx, log, seed, defaults, nodes, cbrApps, pingApps,
                 fs, athstats, sim, outputs>>

\* mkdir(foldername.str().c_str(), ...)
MkdirRun ==
  /\ pc = "mkdir2"
  /\ fs' = Mkdir(fs, "./" \o TopDir, pathname)
  /\ pc' = "athstats"
  /\ UNCHANGED <<calls, writable, callIdx, log, seed, defaults, nodes, cbrApps, pingApps,
                 pathname, smashed, athstats, sim, outputs>>

\* athstats.EnableAthstats (filename, devices): filename is pathname + "/nodes"
EnableAthstats ==
  /\ pc = "athstats"
  /\ athstats' = pathname \o "/nodes"
  /\ pc' = "stop"
  /\ UNCHANGED <<calls, writable, callIdx, log, seed, defaults, nodes, cbrApps, pingApps,
                 fs, pathname, smashed, sim, outputs>>

\* Simulator::Stop (Seconds (DurationofSimulation))
SimulatorStop ==
  /\ pc = "stop"
  /\ sim' = [sim EXCEPT !.stop = arg.DurationofSimulation * 1000]
  /\ pc' = "run"
  /\ UNCHANGED <<calls, writable, callIdx, log, seed, defaults, nodes, cbrApps, pingApps,
                 fs, pathname, smashed, athstats, outputs>>

\* Simulator::Run (): the engine executes events up to the stop time; the
\* statistics reach the files only if their directory exists
SimulatorRun ==
  /\ pc = "run"
  /\ sim' = [sim EXCEPT !.now = sim.stop, !.state = "ran"]
  /\ outputs' = Append(outputs, [args |-> arg, path |-> pathname,
                                 captured |-> pathname \in fs])
  /\ log' = Append(log, <<"Run", arg.PktLength>>)
  /\ pc' = "destroy"
  /\ UNCHANGED <<calls, writable, callIdx, seed, defaults, nodes, cbrApps, pingApps,
                 fs, pathname, smashed, athstats>>

\* Simulator::Destroy ()
SimulatorDestroy ==
  /\ pc = "destroy"
  /\ sim' = [sim EXCEPT !.state = "destroyed"]
  /\ log' = Append(log, <<"Destroy", arg.PktLength>>)
  /\ pc' = "return"
  /\ UNCHANGED <<calls, writable, callIdx, seed, defaults, nodes, cbrApps, pingApps,
                 fs, pathname, smashed, athstats, outputs>>

\* the end of experiment(): its locals are gone and main() goes on, unless the
\* stack protector aborts
Return ==
  /\ pc = "return"
  /\ IF smashed
     THEN /\ pc' = "aborted"
          /\ UNCHANGED <<callIdx, nodes, cbrApps, pingApps, pathname, athstats>>
     ELSE /\ pc' = "call"
          /\ callIdx' = callIdx + 1
          /\ nodes' = <<>>
          /\ cbrApps' = <<>>
          /\ pingApps' = <<>>
          /\ pathname' = ""
          /\ athstats' = ""
  /\ UNCHANGED <<calls, writable, log, seed, defaults, fs, smashed, sim, outputs>>

Next ==
  \/ SetSeed
  \/ CallExperiment
  \/ InstallFlows
  \/ InstallProbes
  \/ MkdirTop
  \/ FormatPath
  \/ MkdirRun
  \/ EnableAthstats
  \/ SimulatorStop
  \/ SimulatorRun
  \/ SimulatorDestroy
  \/ Return
  \/ MainReturn

Spec == Init /\ [][Next]_vars

(***************************************************************************)
(* Properties                                                              *)
(***************************************************************************)
\* a call of experiment() is in progress (or was aborted in it)
InExperiment == pc \notin {"main", "call", "done"}

\* the loop of step 6 has run
FlowsInstalled == InExperiment /\ pc # "apps"

\* the loop installing the echo clients has run
ProbesInstalled == FlowsInstalled /\ pc # "pings"

Flows == 1..Len(cbrApps)

\* the flows C1 is about: the generic branch, 0 < u < 1, PktLength > 0
GenericFlows ==
  { k \in Flows : /\ cbrApps[k].branch \in {"first", "rest"}
                  /\ cbrApps[k].load[1] > 0
                  /\ cbrApps[k].load[1] < cbrApps[k].load[2]
                  /\ cbrApps[k].PacketSize > 0 }

\* packetTransmitTime = L*8/6000000
PacketTransmitTime(len) == RNorm(len * 8, 6000000)

\* packetTransmitTime * (1/u - 1)
SpecMean(len, u) == RMul(PacketTransmitTime(len), RSub(RInv(u), <<1, 1>>))

\* the decimal m / 10^s is the rational r (r in lowest terms)
RECURSIVE DecEq(_, _, _)
DecEq(m, s, r) ==
  IF s = 0 THEN r = <<m, 1>> ELSE DecEq(m, s - 1, RNorm(r[1] * 10, r[2]))

DecimalIs(v, r) == v.kind = "num" /\ ~v.neg /\ IsFinite(r) /\ r[1] >= 0 /\ DecEq(v.mant, v.scale, r)

Max(a, b) == IF a >= b THEN a ELSE b

RECURSIVE Pow10(_)
Pow10(k) == IF k = 0 THEN 1 ELSE 10 * Pow10(k - 1)

\* on and off as integers over the common power of ten
Scaled(v, w) == v.mant * Pow10(Max(v.scale, w.scale) - v.scale)

\* on / (on + off) = u, with u = a/b
RatioIs(on, off, u) ==
  u[2] * Scaled(on, off) = u[1] * (Scaled(on, off) + Scaled(off, on))

\* | on / (on + off) - u | <= 10^-5
RatioNear(on, off, u) ==
  Abs(u[2] * Scaled(on, off) - u[1] * (Scaled(on, off) + Scaled(off, on)))
    <= (u[2] * (Scaled(on, off) + Scaled(off, on))) \div 100000

\* C1 as stated: in the generic branch (0 < u < 1, L > 0) the configured OnTime is
\* the constant L*8/6000000, the configured exponential OffTime mean is
\* packetTransmitTime*(1/u - 1), and OnTime / (OnTime + mean) = u.
C1_AsStated ==
  \A k \in GenericFlows :
    LET f == cbrApps[k]
    IN  /\ f.OnTime.type = "ns3::ConstantRandomVariable"
        /\ DecimalIs(f.OnTime.value, PacketTransmitTime(f.PacketSize))
        /\ f.OffTime.type = "ns3::ExponentialRandomVariable"
        /\ DecimalIs(f.OffTime.value, SpecMean(f.PacketSize, f.load))
        /\ RatioIs(f.OnTime.value, f.OffTime.value, f.load)

\* C1 (amended): in the generic branch (0 < u < 1, L > 0) the configured OnTime is
\* the constant L*8/6000000 written with six significant digits, the configured
\* exponential OffTime mean is packetTransmitTime*(1/u - 1) written with six
\* significant digits, and OnTime / (OnTime + mean) is within 10^-5 of u.
C1_GenericOnOff ==
  \A k \in GenericFlows :
    LET f == cbrApps[k]
    IN  /\ f.OnTime = Constant(StreamDouble(PacketTransmitTime(f.PacketSize)))
        /\ f.OffTime = Exponential(StreamDouble(SpecMean(f.PacketSize, f.load)))
        /\ RatioNear(f.OnTime.value, f.OffTime.value, f.load)

\* a generic flow of 200-byte packets at utilization 0.14 is installed, and one
\* whose values the six digits hold exactly (1500 bytes, utilization 1/7)
C1_Witness ==
  /\ FlowsInstalled
  /\ \E k \in GenericFlows :
       /\ cbrApps[k].PacketSize = 200
       /\ cbrApps[k].load = <<7, 50>>
       /\ cbrApps[k].OnTime.value.mant = 266667
  /\ \E k \in GenericFlows : cbrApps[k].branch = "first"

\* the flow with index k - 1 is the one experiment() treats as the first node's
Attacking(k) == k - 1 = (arg.NumofNode \div 2) - 1

AlwaysOn(f) == f.OnTime = Constant(IntDecimal(1)) /\ f.OffTime = Constant(IntDecimal(0))

AlwaysOff(f) == f.OnTime = Constant(IntDecimal(0)) /\ f.OffTime = Constant(IntDecimal(1))

\* C2: the constants (OnTime 1, OffTime 0) are configured exactly for the attacking
\* flow with utilization 1, and (OnTime 0, OffTime 1) exactly for the attacking flow
\* with utilization 0; every other flow, an ordinary flow with utilization exactly
\* 0 or 1 included, gets OnTime = packetTransmitTime and an exponential OffTime.
C2_DegenerateOnlyAttacking ==
  FlowsInstalled =>
    \A k \in Flows :
      LET f == cbrApps[k]
      IN  /\ AlwaysOn(f) <=> (Attacking(k) /\ arg.FirstNodeLoad = <<1, 1>>)
          /\ AlwaysOff(f) <=> (Attacking(k) /\ arg.FirstNodeLoad = <<0, 1>>)
          /\ ~(AlwaysOn(f) \/ AlwaysOff(f)) =>
               /\ f.OnTime = Constant(StreamDouble(PacketTransmitTime(arg.PktLength)))
               /\ f.OffTime.type = "ns3::ExponentialRandomVariable"
          /\ ~Attacking(k) =>
               /\ f.load = arg.RestNodeLoad
               /\ f.OffTime.type = "ns3::ExponentialRandomVariable"

\* ordinary flows with utilization exactly 1 beside an always-on attacking flow
C2_Witness ==
  /\ FlowsInstalled
  /\ arg.RestNodeLoad = <<1, 1>>
  /\ arg.PktLength = 1500
  /\ Len(cbrApps) = 3
  /\ AlwaysOn(cbrApps[3])
  /\ cbrApps[1].OffTime.type = "ns3::ExponentialRandomVariable"

\* ordinary flows with utilization exactly 0 beside an always-off attacking flow
C2_WitnessOff ==
  /\ FlowsInstalled
  /\ arg.RestNodeLoad = <<0, 1>>
  /\ Len(cbrApps) = 2
  /\ AlwaysOff(cbrApps[2])
  /\ cbrApps[1].OffTime = Exponential(StreamDouble(Inf))

\* flow k - 1 as C3 describes it
PairedFlow(k) ==
  LET f == cbrApps[k]
  IN  /\ f.node = 2 * (k - 1)
      /\ f.sinkNode = 2 * (k - 1) + 1
      /\ f.Remote = nodes[f.sinkNode + 1]
      /\ f.Remote = "10.0.0." \o Dec(2 * (k - 1) + 2)
      /\ f.Port = 12345 + (k - 1)
      /\ f.Port = f.sinkPort
      /\ f.branch # "rest" <=> k = arg.NumofNode \div 2
      /\ f.load = IF k = arg.NumofNode \div 2 THEN arg.FirstNodeLoad ELSE arg.RestNodeLoad

EvenCount == arg.NumofNode >= 2 /\ arg.NumofNode % 2 = 0

\* C3 as stated: for every even stationCount N >= 2 there are exactly N/2 flows,
\* flow k from station 2k to station 2k+1, addressed to that station's address
\* 10.0.0.(2k+2) and port 12345+k, and exactly the flow N/2-1 is the attacking one.
C3_AsStated ==
  (FlowsInstalled /\ EvenCount) =>
    /\ Len(cbrApps) = arg.NumofNode \div 2
    /\ \A k \in Flows : PairedFlow(k)

\* C3 (amended): the same for every even stationCount N with 2 <= N <= 254.
C3_Pairing ==
  (FlowsInstalled /\ EvenCount /\ arg.NumofNode <= 254) =>
    /\ Len(cbrApps) = arg.NumofNode \div 2
    /\ \A k \in Flows : PairedFlow(k)

\* the six stations of main(): flows 0 and 1 ordinary, flow 2 attacking
C3_Witness ==
  /\ FlowsInstalled
  /\ calls = MainCalls
  /\ Len(cbrApps) = 3
  /\ cbrApps[1].branch = "rest"
  /\ cbrApps[2].branch = "rest"
  /\ cbrApps[3].branch = "first=1"
  /\ cbrApps[3].Remote = "10.0.0.6"

\* 254 stations: the last flow is addressed to 10.0.0.254
C3_WitnessLargest ==
  /\ FlowsInstalled
  /\ arg.NumofNode = 254
  /\ cbrApps[127].Remote = nodes[254]

Ordinary(k) == k \in Flows /\ ~Attacking(k)

Staggered ==
  \A k \in Flows :
    Ordinary(k) =>
      /\ cbrApps[k].StartTime = 3100 + (k - 1) * 10
      /\ Ordinary(k + 1) => cbrApps[k].StartTime < cbrApps[k + 1].StartTime

\* C4 as stated: for every stationCount the ordinary flows start at 3.100 + k*0.01 s,
\* strictly later with every flow index, and each before the attacking flow's 53 s.
C4_AsStated ==
  FlowsInstalled =>
    /\ Staggered
    /\ \A k \in Flows : Ordinary(k) => cbrApps[k].StartTime < 53000

\* C4 (amended): for every stationCount the ordinary flows start at 3.100 + k*0.01 s,
\* strictly later with every flow index; for every stationCount up to 9982 each
\* starts before the attacking flow, whose StartTime is 53 s.
C4_StaggeredStarts ==
  FlowsInstalled =>
    /\ Staggered
    /\ \A a \in Flows : Attacking(a) => cbrApps[a].StartTime = 53000
    /\ arg.NumofNode <= 9982 =>
         \A k \in Flows : Ordinary(k) => cbrApps[k].StartTime < 53000

\* 9982 stations: 4990 ordinary flows, the last starting at 52.99 s
C4_Witness ==
  /\ FlowsInstalled
  /\ arg.NumofNode = 9982
  /\ Len(cbrApps) = 4991
  /\ Ordinary(4990)
  /\ cbrApps[4990].StartTime = 52990
  /\ cbrApps[4991].StartTime = 53000

\* C5 as stated: one echo client per flow, sending a single packet from the flow's
\* sender to its receiver, and no two of them with the same start time.
C5_AsStated ==
  ProbesInstalled =>
    /\ Len(pingApps) = Len(cbrApps)
    /\ \A k \in 1..Len(pingApps) :
         /\ pingApps[k].MaxPackets = 1
         /\ pingApps[k].node = cbrApps[k].node
         /\ pingApps[k].Remote = cbrApps[k].Remote
    /\ \A j, k \in 1..Len(pingApps) : j < k => pingApps[j].StartTime # pingApps[k].StartTime

Triple(a) == <<a.FirstNodeLoad, a.RestNodeLoad, a.PktLength>>

\* C6 as stated: two runs have the same output path exactly when they have the same
\* (attacking utilization, ordinary utilization, packet length).
C6_AsStated ==
  \A i, j \in 1..Len(outputs) :
    (Triple(outputs[i].args) = Triple(outputs[j].args)) <=> (outputs[i].path = outputs[j].path)

MainLog ==
  << <<"SetSeed", 1>>,
     <<"experiment", 200>>, <<"Run", 200>>, <<"Destroy", 200>>,
     <<"experiment", 1500>>, <<"Run", 1500>>, <<"Destroy", 1500>> >>

MainPathPrefix == "./CDoS-6Mbps-adhoc-UDP-building/u_0=1.00rho=0.14T="

\* C7 as stated: main() sets the seed 1 once, before the first run, then makes two
\* runs one after the other, each built, run and destroyed before the next: packet
\* length 200, then 1500, both with 6 stations, 203 s, utilizations 1 and 0.14, no
\* handshake; their output paths differ in the packet length only.
C7_AsStated ==
  calls = MainCalls =>
    /\ Len(log) <= Len(MainLog)
    /\ SubSeq(MainLog, 1, Len(log)) = log
    /\ pc \in {"done", "aborted"} =>
         /\ log = MainLog
         /\ seed = 1
         /\ Len(outputs) = 2
         /\ outputs[1].args = Args(FALSE, 6, 203, <<1, 1>>, <<7, 50>>, 200)
         /\ outputs[2].args = Args(FALSE, 6, 203, <<1, 1>>, <<7, 50>>, 1500)
         /\ outputs[1].path = MainPathPrefix \o "200"
         /\ outputs[2].path = MainPathPrefix \o "1500"

InUnit(u) == u[2] > 0 /\ u[1] >= 0 /\ u[1] <= u[2]

ValidArgs(a) ==
  /\ InUnit(a.FirstNodeLoad)
  /\ InUnit(a.RestNodeLoad)
  /\ a.NumofNode % 2 = 0
  /\ a.PktLength > 0
  /\ a.DurationofSimulation > 0

\* C8 as stated: the engine runs only for a valid configuration (utilizations in
\* [0,1], even station count, positive packet length and duration) whose output
\* directory exists; no run goes through the engine capturing nothing.
C8_AsStated ==
  /\ (InExperiment /\ sim.state # "idle") => (ValidArgs(arg) /\ pathname \in fs)
  /\ \A i \in 1..Len(outputs) : ValidArgs(outputs[i].args) /\ outputs[i].captured

\* Simulator::Stop has been called in this run
StopScheduled == InExperiment /\ sim.stop >= 0

OrdinaryNeverStopped == \A k \in Flows : Ordinary(k) => cbrApps[k].StopTime = 0

AttackWindowInside ==
  \A a \in Flows :
    Attacking(a) =>
      /\ cbrApps[a].StartTime = 53000
      /\ cbrApps[a].StopTime = 153000
      /\ 0 < cbrApps[a].StartTime
      /\ cbrApps[a].StopTime < sim.stop

HardStop ==
  /\ sim.stop = arg.DurationofSimulation * 1000
  /\ sim.now <= sim.stop
  /\ sim.state # "idle" => sim.now = sim.stop

\* C9 as stated: for every (positive) duration the attacking flow's window [53, 153)
\* is inside the run (start after 0, stop before durationSeconds), the ordinary flows
\* have no stop of their own, and the engine stops at durationSeconds.
C9_AsStated ==
  (StopScheduled /\ arg.DurationofSimulation > 0) =>
    (AttackWindowInside /\ OrdinaryNeverStopped /\ HardStop)

\* C9 (amended): for every duration above 153 s the attacking flow's window
\* [53, 153) is inside the run; for every duration the ordinary flows have no stop
\* of their own and the engine stops at durationSeconds.
C9_Windows ==
  StopScheduled =>
    /\ arg.DurationofSimulation > 153 => AttackWindowInside
    /\ OrdinaryNeverStopped
    /\ HardStop

\* a run of 154 s with an ordinary and an attacking flow has gone through the engine
C9_Witness ==
  /\ pc = "destroy"
  /\ arg.DurationofSimulation = 154
  /\ Len(cbrApps) = 3
  /\ sim.now = 154000

\* C10 as stated: the text sprintf writes has at most 49 characters, so that it
\* fits, with its terminator, in char pathname[50].
C10_AsStated ==
  (InExperiment /\ pathname # "") => Len(pathname) + 1 <= PathnameSize
====
